---- MODULE Spec2Model ----
(***************************************************************************)
(* Hearth: event-sourced task orchestration (fmizzell/hearth).             *)
(*                                                                         *)
(* The model follows the Go sources: the reducers and the completion       *)
(* validator of reducers.go, the depth-first scheduler of hearth.go, the   *)
(* event chain of orchestration.go and the file repository.  A Process     *)
(* call is one action: validation, the before hook, the commit to the      *)
(* log, the reducer and every listener it triggers, with the events those  *)
(* listeners emit in turn.                                                 *)
(***************************************************************************)
EXTENDS Integers, Sequences, FiniteSets, TLC

VARIABLES
    tasks,      \* HearthState.Tasks of the live instance: map TaskID -> Task
    file,       \* .hearth/events.json: the marshalled event list
    clock,      \* the last value time.Now() returned
    writes,     \* history: number of assignments to each task's CompletedAt
    last,       \* what the last call returned to its caller
    lock,       \* the process that holds the flock on events.json, or Nil
    procs,      \* the processes that share the workspace: where each one is
    written     \* history: the event lists that completed writes left on disk

vars == <<tasks, file, clock, writes, last, lock, procs, written>>

\* what the calls of a single instance leave alone
shared == <<lock, procs, written>>

----------------------------------------------------------------------------
(* Bounds *)

MaxTasks == 3           \* task IDs the callers use
MaxLog == 5             \* callers stop issuing events at this log length
MaxSched == 3           \* tasks in a task set handed to the scheduler
MaxTime == 2            \* creation times in a task set handed to the scheduler
MaxReplay == 4          \* events in an event list handed to replay

(* Values *)

IDs == {"T1", "T2", "T3", "T4", "T5", "T6"}
IdOrder == <<"T1", "T2", "T3", "T4", "T5", "T6">>
TaskIDs == {IdOrder[i] : i \in 1..MaxTasks}
Titles == {"a", "b"}
Nil == "nil"            \* a nil *string, or a nil *Task
NoTime == 0             \* a nil *time.Time; time.Now() is 1 or later
Empty == ""             \* the empty TaskID of NextTaskSelected

----------------------------------------------------------------------------
(* State *)

\* Task, as reduceTaskCreated builds it
NewTask(e) ==
    [ID |-> e.TaskID, Title |-> e.Title, ParentID |-> e.ParentID,
     DependsOn |-> e.DependsOn, Status |-> "todo", CreatedAt |-> e.Time,
     CompletedAt |-> NoTime]

Has(ts, id) == id \in DOMAIN ts

\* for _, task := range state.Tasks { if task.ParentID != nil && *task.ParentID == id
ChildrenOf(ts, id) == {c \in DOMAIN ts : ts[c].ParentID # Nil /\ ts[c].ParentID = id}

Put(ts, id, t) == [x \in (DOMAIN ts) \cup {id} |-> IF x = id THEN t ELSE ts[x]]

----------------------------------------------------------------------------
(* Events *)

TaskCreated(id, title, parent, dep, t) ==
    [type |-> "task_created", TaskID |-> id, Title |-> title,
     ParentID |-> parent, DependsOn |-> dep, Time |-> t]
TaskStarted(id, t) == [type |-> "task_started", TaskID |-> id, Time |-> t]
TaskCompleted(id, t) == [type |-> "task_completed", TaskID |-> id, Time |-> t]
ExecuteTasksRequested(t) == [type |-> "execute_tasks_requested", Time |-> t]
NextTaskSelected(id, t) == [type |-> "next_task_selected", TaskID |-> id, Time |-> t]
TaskExecuted(id, path, t) ==
    [type |-> "task_executed", TaskID |-> id, ResultPath |-> path, Time |-> t]
SummaryRequested(id, t) == [type |-> "summary_requested", ParentTaskID |-> id, Time |-> t]
SummaryGenerated(id, path, t) ==
    [type |-> "summary_generated", ParentTaskID |-> id, SummaryPath |-> path, Time |-> t]

----------------------------------------------------------------------------
(* Completion validator *)

\* a validator that lets every completion through
ValidateTypedAcceptAll(ts, e) == TRUE

\* a validator that also rejects the completion of a task it does not know
ValidateTypedKnown(ts, e) ==
    Has(ts, e.TaskID) /\ ~ \E c \in ChildrenOf(ts, e.TaskID) : ts[c].Status # "completed"

\* TaskCompletionValidator.ValidateTyped: reject when a child is not completed
ValidateTyped(ts, e) ==
    ~ \E c \in ChildrenOf(ts, e.TaskID) : ts[c].Status # "completed"

----------------------------------------------------------------------------
(* Reducers.  Go leaves the iteration order of a map unspecified, so a    *)
(* reducer that ranges over state.Tasks yields the set of its possible     *)
(* results.  A result of the completion reducer is [tasks, assigned]: the  *)
(* new task map and the task IDs whose CompletedAt it assigned.            *)

reduceTaskCreated(ts, e) == {Put(ts, e.TaskID, NewTask(e))}

reduceTaskStarted(ts, e) ==
    IF Has(ts, e.TaskID)
    THEN {[ts EXCEPT ![e.TaskID].Status = "in-progress"]}
    ELSE {ts}

\* the orders in which "for _, task := range state.Tasks" may visit the tasks
RECURSIVE Orders(_)
Orders(S) ==
    IF S = {} THEN {<<>>}
    ELSE UNION { {<<x>> \o rest : rest \in Orders(S \ {x})} : x \in S }

\* a loop that lets the first child it visits decide
RECURSIVE allChildrenDoneFirst(_, _, _)
allChildrenDoneFirst(ts, parentID, order) ==
    IF order = <<>> THEN TRUE
    ELSE LET task == ts[Head(order)]
         IN  IF task.ParentID # Nil /\ task.ParentID = parentID
             THEN task.Status = "completed"
             ELSE allChildrenDoneFirst(ts, parentID, Tail(order))

\* a loop that never finds a child that is not completed
allChildrenDoneAlways(ts, parentID, order) == TRUE

\* the loop of autoCompleteParent: false at the first child that is not completed
RECURSIVE allChildrenDone(_, _, _)
allChildrenDone(ts, parentID, order) ==
    IF order = <<>> THEN TRUE
    ELSE LET task == ts[Head(order)]
         IN  IF task.ParentID # Nil /\ task.ParentID = parentID
                /\ task.Status # "completed"
             THEN FALSE
             ELSE allChildrenDone(ts, parentID, Tail(order))

\* a reducer that leaves the parent as it is
autoCompleteParentNone(r, parentID, completedTime) == {r}

RECURSIVE autoCompleteParent(_, _, _)
autoCompleteParent(r, parentID, completedTime) ==
    LET ts == r.tasks
        r2 == [tasks |-> [ts EXCEPT ![parentID].Status = "completed",
                                    ![parentID].CompletedAt = completedTime],
               assigned |-> Append(r.assigned, parentID)]
    IN  UNION {IF done /\ Has(ts, parentID) /\ ts[parentID].Status # "completed"
               THEN IF ts[parentID].ParentID # Nil
                    THEN autoCompleteParent(r2, ts[parentID].ParentID, completedTime)
                    ELSE {r2}
               ELSE {r} :
               done \in {allChildrenDone(ts, parentID, order) : order \in Orders(DOMAIN ts)}}

reduceTaskCompletedR(ts, e) ==
    IF Has(ts, e.TaskID)
    THEN LET r1 == [tasks |-> [ts EXCEPT ![e.TaskID].Status = "completed",
                                         ![e.TaskID].CompletedAt = e.Time],
                    assigned |-> <<e.TaskID>>]
         IN  IF ts[e.TaskID].ParentID # Nil
             THEN autoCompleteParent(r1, ts[e.TaskID].ParentID, e.Time)
             ELSE {r1}
    ELSE {[tasks |-> ts, assigned |-> <<>>]}

reduceTaskCompleted(ts, e) == {r.tasks : r \in reduceTaskCompletedR(ts, e)}

reduceNextTaskSelected(ts, e) ==
    IF e.TaskID # Empty /\ Has(ts, e.TaskID)
    THEN {[ts EXCEPT ![e.TaskID].Status = "in-progress"]}
    ELSE {ts}

\* a reducer that takes the executed task out of the map
reduceTaskExecutedDrop(ts, e) == {[x \in DOMAIN ts \ {e.TaskID} |-> ts[x]]}

reduceTaskExecuted(ts, e) == {ts}

\* the reducers registered in NewHearth, by event type, with the CompletedAt
\* assignments each result makes
ReduceR(ts, e) ==
    CASE e.type = "task_created" ->
           {[tasks |-> t, assigned |-> <<>>] : t \in reduceTaskCreated(ts, e)}
      [] e.type = "task_started" ->
           {[tasks |-> t, assigned |-> <<>>] : t \in reduceTaskStarted(ts, e)}
      [] e.type = "task_completed" -> reduceTaskCompletedR(ts, e)
      [] e.type = "next_task_selected" ->
           {[tasks |-> t, assigned |-> <<>>] : t \in reduceNextTaskSelected(ts, e)}
      [] e.type = "task_executed" ->
           {[tasks |-> t, assigned |-> <<>>] : t \in reduceTaskExecuted(ts, e)}
      [] OTHER -> {[tasks |-> ts, assigned |-> <<>>]}

Reduce(ts, e) == {r.tasks : r \in ReduceR(ts, e)}

EmptyTasks == [x \in {} |-> Nil]

\* replay: fold the reducers over an event list; the possible results
RECURSIVE ReplayFrom(_, _)
ReplayFrom(ts, evs) ==
    IF evs = <<>> THEN {ts}
    ELSE UNION {ReplayFrom(t, Tail(evs)) : t \in Reduce(ts, Head(evs))}

Replay(evs) == ReplayFrom(EmptyTasks, evs)

----------------------------------------------------------------------------
(* Persistence: FileRepository over .hearth/events.json.  An event is      *)
(* marshalled to a JSON object, modelled as the tuple of its discriminator *)
(* and its fields in declaration order; a nil pointer becomes null.        *)

Null == "null"
ToJSON(p) == IF p = Nil THEN Null ELSE p
FromJSON(v) == IF v = Null THEN Nil ELSE v

\* a marshaller that leaves parent_id out of a task_created event
MarshalEventNoParent(e) ==
    CASE e.type = "task_created" ->
           <<e.type, e.TaskID, e.Title, Null, ToJSON(e.DependsOn), e.Time>>
      [] e.type \in {"task_started", "task_completed", "next_task_selected"} ->
           <<e.type, e.TaskID, e.Time>>
      [] e.type = "task_executed" -> <<e.type, e.TaskID, e.ResultPath, e.Time>>
      [] e.type = "summary_requested" -> <<e.type, e.ParentTaskID, e.Time>>
      [] e.type = "summary_generated" -> <<e.type, e.ParentTaskID, e.SummaryPath, e.Time>>
      [] OTHER -> <<e.type, e.Time>>

MarshalEvent(e) ==
    CASE e.type = "task_created" ->
           <<e.type, e.TaskID, e.Title, ToJSON(e.ParentID), ToJSON(e.DependsOn), e.Time>>
      [] e.type \in {"task_started", "task_completed", "next_task_selected"} ->
           <<e.type, e.TaskID, e.Time>>
      [] e.type = "task_executed" -> <<e.type, e.TaskID, e.ResultPath, e.Time>>
      [] e.type = "summary_requested" -> <<e.type, e.ParentTaskID, e.Time>>
      [] e.type = "summary_generated" -> <<e.type, e.ParentTaskID, e.SummaryPath, e.Time>>
      [] OTHER -> <<e.type, e.Time>>

\* the event factories NewHearth registers: one per event type
Factories ==
    {"task_created", "task_started", "task_completed", "execute_tasks_requested",
     "next_task_selected", "task_executed", "summary_requested", "summary_generated"}

UnmarshalEvent(j) ==
    CASE j[1] = "task_created" ->
           TaskCreated(j[2], j[3], FromJSON(j[4]), FromJSON(j[5]), j[6])
      [] j[1] = "task_started" -> TaskStarted(j[2], j[3])
      [] j[1] = "task_completed" -> TaskCompleted(j[2], j[3])
      [] j[1] = "next_task_selected" -> NextTaskSelected(j[2], j[3])
      [] j[1] = "task_executed" -> TaskExecuted(j[2], j[3], j[4])
      [] j[1] = "summary_requested" -> SummaryRequested(j[2], j[3])
      [] j[1] = "summary_generated" -> SummaryGenerated(j[2], j[3], j[4])
      [] OTHER -> ExecuteTasksRequested(j[2])

MarshalEvents(evs) == [i \in 1..Len(evs) |-> MarshalEvent(evs[i])]

\* readEvents: the empty file is the empty list; an unknown type is an error
readEvents(f) ==
    IF \E i \in 1..Len(f) : f[i][1] \notin Factories
    THEN [err |-> TRUE, events |-> <<>>]
    ELSE [err |-> FALSE, events |-> [i \in 1..Len(f) |-> UnmarshalEvent(f[i])]]

\* writeEvents: truncate, then write the whole list
writeEvents(f, evs) == MarshalEvents(evs)

\* a repository that stores the task events and drops the events of the
\* orchestration chain
AddTaskEventsOnly(f, e) ==
    LET existing == readEvents(f)
    IN  IF existing.err \/ e.type \notin {"task_created", "task_started", "task_completed"}
        THEN f
        ELSE writeEvents(f, Append(existing.events, e))

\* repo.Add returned an error
AddFailed(f, e) == readEvents(f).err

\* Add: lock, read all, append, write all
Add(f, e) ==
    LET existing == readEvents(f)
    IN  IF existing.err THEN f ELSE writeEvents(f, Append(existing.events, e))

\* GetAll: the events, or the empty list when reading fails
GetAll(f) == LET r == readEvents(f) IN IF r.err THEN <<>> ELSE r.events

\* SetAll: lock, write
SetAll(f, evs) == writeEvents(f, evs)

----------------------------------------------------------------------------
(* Scheduler: depth-first next-task selection.  sort.Slice is not stable   *)
(* and the tasks arrive in map order, so tasks with equal CreatedAt may    *)
(* come out in any order: the search yields a set of possible results.     *)

\* a sort that leaves the tasks in the order the map gave them
SortAnyOrder(S, ts) == Orders(S)

\* sort.Slice(xs, func(i, j) bool { return xs[i].CreatedAt.Before(xs[j].CreatedAt) })
RECURSIVE SortByCreatedAt(_, _)
SortByCreatedAt(S, ts) ==
    IF S = {} THEN {<<>>}
    ELSE UNION { {<<m>> \o rest : rest \in SortByCreatedAt(S \ {m}, ts)} :
                 m \in {x \in S : \A y \in S : ts[x].CreatedAt <= ts[y].CreatedAt} }

RECURSIVE findNextInSubtree(_, _)
RECURSIVE SearchChildren(_, _)

\* for _, child := range children: the first child whose subtree yields a task
SearchChildren(children, ts) ==
    IF children = <<>> THEN {Nil}
    ELSE LET found == findNextInSubtree(Head(children), ts)
         IN  (found \ {Nil}) \cup
             (IF Nil \in found THEN SearchChildren(Tail(children), ts) ELSE {})

\* a search that offers a todo task before it looks at the task's children
findNextInSubtreeSelfFirst(parent, ts) ==
    IF ts[parent].Status = "todo" THEN {parent}
    ELSE UNION {SearchChildren(sorted, ts) :
                  sorted \in SortByCreatedAt(ChildrenOf(ts, parent), ts)}

findNextInSubtree(parent, ts) ==
    LET children == ChildrenOf(ts, parent)
    IN  IF children = {}
        THEN IF ts[parent].Status # "todo" THEN {Nil} ELSE {parent}
        ELSE UNION {SearchChildren(sorted, ts) : sorted \in SortByCreatedAt(children, ts)}

\* a search that also starts from the tasks whose parent is not in the map
RootsOrOrphans(ts) == {r \in DOMAIN ts : ts[r].ParentID = Nil \/ ~Has(ts, ts[r].ParentID)}

Roots(ts) == {r \in DOMAIN ts : ts[r].ParentID = Nil}

findNextTask(ts) ==
    UNION {SearchChildren(sorted, ts) : sorted \in SortByCreatedAt(Roots(ts), ts)}

\* Hearth.GetNextTask: the possible results, Nil for none
GetNextTask(ts) == findNextTask(ts)

----------------------------------------------------------------------------
(* The engine.  An engine state st is [tasks, file, clock, writes,         *)
(* emitted, failed, rejected], emitted being the events the engine has     *)
(* accepted during the call, failed whether a repo.Add of the call         *)
(* returned an error and rejected the events a validator turned down.      *)
(* Emit                                                                    *)
(* runs the validator, the before hook, the commit to the repository, the  *)
(* reducer and then the listeners in registration order; a listener's Emit *)
(* runs to its end before the next listener starts.  What the scheduler    *)
(* and the executor may do differently is a choice: Emit yields the set of *)
(* its possible outcomes [st, ok].                                         *)

Now(st) == st.clock + 1                         \* time.Now()

\* .hearth/results/<id>.md, named after the task
ResultPath(id) == id

Count(seq, id) == Cardinality({i \in 1..Len(seq) : seq[i] = id})

\* repo.Add, then the reducer of the event's type; the possible results
Commit(st, e) ==
    {[tasks  |-> r.tasks,
      file   |-> Add(st.file, e),
      clock  |-> IF e.Time > st.clock THEN e.Time ELSE st.clock,
      writes |-> [id \in DOMAIN st.writes |-> st.writes[id] + Count(r.assigned, id)],
      emitted |-> Append(st.emitted, e),
      failed |-> st.failed \/ AddFailed(st.file, e),
      rejected |-> st.rejected] :
        r \in ReduceR(st.tasks, e)}

\* the engine's event log
GetEvents(st) == GetAll(st.file)

\* beforeNextTaskSelected: the events the hook may turn e into
beforeNextTaskSelected(st, e) ==
    {[e EXCEPT !.TaskID = IF nextTask = Nil THEN Empty ELSE nextTask] :
        nextTask \in findNextTask(st.tasks)}

\* task IDs no event has created yet, for the subtasks an execution spawns
FreshIDs(st) ==
    LET unused == {i \in 1..MaxTasks : ~Has(st.tasks, IdOrder[i])}
    IN  {IdOrder[i] : i \in {j \in unused : \A k \in unused : j <= k}}

\* beforeTaskExecuted: ExecuteTask succeeds, succeeds after the task added a
\* subtask to the workspace, or fails
beforeTaskExecuted(st, e) ==
    IF ~Has(st.tasks, e.TaskID)
    THEN {[st |-> st, e |-> e]}
    ELSE {[st |-> st, e |-> [e EXCEPT !.ResultPath = ResultPath(e.TaskID)]],
          [st |-> st, e |-> [e EXCEPT !.ResultPath = Empty]]}
         \cup
         {[st |-> s1, e |-> [e EXCEPT !.ResultPath = ResultPath(e.TaskID)]] :
            s1 \in UNION {Commit(st, TaskCreated(c, "a", e.TaskID, Nil, Now(st))) :
                            c \in FreshIDs(st)}}

\* beforeSummaryGenerated: the summary is stored, is stored after the
\* executor added a subtask of the parent to the workspace, or the call fails
beforeSummaryGenerated(st, e) ==
    IF ~Has(st.tasks, e.ParentTaskID)
    THEN {[st |-> st, e |-> e]}
    ELSE {[st |-> st, e |-> [e EXCEPT !.SummaryPath = ResultPath(e.ParentTaskID)]],
          [st |-> st, e |-> [e EXCEPT !.SummaryPath = Empty]]}
         \cup
         {[st |-> s1, e |-> [e EXCEPT !.SummaryPath = ResultPath(e.ParentTaskID)]] :
            s1 \in UNION {Commit(st, TaskCreated(c, "a", e.ParentTaskID, Nil, Now(st))) :
                            c \in FreshIDs(st)}}

RECURSIVE Emit(_, _)
RECURSIVE Listeners(_, _)

States(outcomes) == {o.st : o \in outcomes}

onExecuteTasksRequested(st, e) == States(Emit(st, NextTaskSelected(Empty, Now(st))))

\* a listener that never executes the selected task
onNextTaskSelectedSkip(st, e) == {st}

onNextTaskSelected(st, e) ==
    IF e.TaskID = Empty
    THEN {st}
    ELSE States(Emit(st, TaskExecuted(e.TaskID, Empty, Now(st))))

\* a listener that completes the executed task whether or not it has children
onTaskExecutedComplete(st, e) ==
    IF ~Has(st.tasks, e.TaskID)
    THEN {st}
    ELSE States(Emit(st, TaskCompleted(e.TaskID, Now(st))))

onTaskExecuted(st, e) ==
    IF ~Has(st.tasks, e.TaskID)
    THEN {st}
    ELSE IF ChildrenOf(st.tasks, e.TaskID) # {}
         THEN States(Emit(st, NextTaskSelected(Empty, Now(st))))
         ELSE States(Emit(st, TaskCompleted(e.TaskID, Now(st))))

onTaskCompletedParent(st, e) ==
    IF ~Has(st.tasks, e.TaskID)
    THEN {st}
    ELSE LET parentID == st.tasks[e.TaskID].ParentID
         IN  IF /\ parentID # Nil
                /\ Has(st.tasks, parentID)
                /\ st.tasks[parentID].Status # "completed"
                /\ \A c \in ChildrenOf(st.tasks, parentID) :
                       st.tasks[c].Status = "completed"
             THEN States(Emit(st, SummaryRequested(parentID, Now(st))))
             ELSE {st}

\* a listener that never continues the loop after a completion
onTaskCompletedScheduleNever(st, e) == {st}

\* a listener that continues the loop after every completion
onTaskCompletedScheduleAlways(st, e) ==
    States(Emit(st, NextTaskSelected(Empty, Now(st))))

onTaskCompletedSchedule(st, e) ==
    LET events == GetEvents(st)
    IN  IF Len(events) < 2
        THEN {st}
        ELSE LET lastEvent == events[Len(events) - 1]
             IN  IF lastEvent.type = "task_executed" /\ lastEvent.TaskID = e.TaskID
                 THEN States(Emit(st, NextTaskSelected(Empty, Now(st))))
                 ELSE {st}

onSummaryRequested(st, e) ==
    States(Emit(st, SummaryGenerated(e.ParentTaskID, Empty, Now(st))))

onSummaryGenerated(st, e) == States(Emit(st, TaskCompleted(e.ParentTaskID, Now(st))))

\* the onSummaryGenerated of the later listeners file: it completes the
\* parent and then asks for the next task
onSummaryGeneratedContinue(st, e) ==
    UNION {States(Emit(s1, NextTaskSelected(Empty, Now(s1)))) :
             s1 \in onSummaryGenerated(st, e)}

\* the Then listeners of the event's type, in registration order; the
\* sources hold two versions of onSummaryGenerated and either may be built
Listeners(st, e) ==
    CASE e.type = "execute_tasks_requested" -> onExecuteTasksRequested(st, e)
      [] e.type = "next_task_selected" -> onNextTaskSelected(st, e)
      [] e.type = "task_executed" -> onTaskExecuted(st, e)
      [] e.type = "task_completed" ->
           UNION {onTaskCompletedSchedule(s1, e) : s1 \in onTaskCompletedParent(st, e)}
      [] e.type = "summary_requested" -> onSummaryRequested(st, e)
      [] e.type = "summary_generated" ->
           onSummaryGenerated(st, e) \cup onSummaryGeneratedContinue(st, e)
      [] OTHER -> {st}

\* commit the event, then run its listeners.  What the engine does when
\* repo.Add returns an error is not decided by this repository: it either
\* gives the event up and Emit returns false, or goes on as if it was stored
Then(st, e) ==
    (IF AddFailed(st.file, e)
     THEN {[st |-> [st EXCEPT !.failed = TRUE], ok |-> FALSE]}
     ELSE {})
    \cup
    {[st |-> s2, ok |-> TRUE] : s2 \in UNION {Listeners(s1, e) : s1 \in Commit(st, e)}}

Emit(st, e) ==
    CASE e.type = "task_completed" ->
           IF ValidateTyped(st.tasks, e)
           THEN Then(st, e)
           ELSE {[st |-> [st EXCEPT !.rejected = Append(@, e)], ok |-> FALSE]}
      [] e.type = "next_task_selected" ->
           UNION {Then(st, e2) : e2 \in beforeNextTaskSelected(st, e)}
      [] e.type = "task_executed" ->
           UNION {Then(b.st, b.e) : b \in beforeTaskExecuted(st, e)}
      [] e.type = "summary_generated" ->
           UNION {Then(b.st, b.e) : b \in beforeSummaryGenerated(st, e)}
      [] OTHER -> Then(st, e)

ErrEventRejected == "event was rejected by validators"

\* Hearth.Process: the possible outcomes [st, err]
Process(st, e) ==
    {[st |-> o.st, err |-> IF o.ok THEN Nil ELSE ErrEventRejected] : o \in Emit(st, e)}

----------------------------------------------------------------------------
(* The program: one Hearth instance on a workspace, and its callers.       *)

Cur == [tasks |-> tasks, file |-> file, clock |-> clock, writes |-> writes,
        emitted |-> <<>>, failed |-> FALSE, rejected |-> <<>>]

Init ==
    /\ tasks = EmptyTasks
    /\ file = <<>>
    /\ clock = 0
    /\ writes = [id \in TaskIDs |-> 0]
    /\ last = [call |-> "NewHearth", err |-> Nil]
    /\ lock = Nil
    /\ procs = <<>>
    /\ written = {}

\* h.Process(e) returns
Call(e) ==
    \E o \in Process(Cur, e) :
        /\ tasks' = o.st.tasks
        /\ file' = o.st.file
        /\ clock' = o.st.clock
        /\ writes' = o.st.writes
        /\ last' = [call |-> "Process", event |-> e, err |-> o.err,
                     emitted |-> o.st.emitted, failed |-> o.st.failed,
                     rejected |-> o.st.rejected]
        /\ UNCHANGED shared

\* the parents a caller names for a task: none, or another of the first two IDs
ParentChoices(id) == {Nil} \cup ({"T1", "T2"} \ {id})

\* the dependencies a caller names: none, or the first task
DependsOnChoices(id, parent) == IF id = "T2" /\ parent = Nil THEN {Nil, "T1"} ELSE {Nil}

\* hearth add: a new task under the next unused ID
ProcessTaskCreated ==
    /\ Len(file) < MaxLog
    /\ \E id \in FreshIDs(Cur) : \E parent \in ParentChoices(id) :
       \E dep \in DependsOnChoices(id, parent) :
           Call(TaskCreated(id, "a", parent, dep, Now(Cur)))

\* a TaskCreated for an ID that is already in the task map
ProcessTaskCreatedAgain ==
    /\ Len(file) < MaxLog
    /\ \E id \in DOMAIN tasks : Call(TaskCreated(id, "b", Nil, Nil, Now(Cur)))

ProcessTaskStarted ==
    /\ Len(file) < MaxLog
    /\ \E id \in TaskIDs : Call(TaskStarted(id, Now(Cur)))

ProcessTaskCompleted ==
    /\ Len(file) < MaxLog
    /\ \E id \in TaskIDs : Call(TaskCompleted(id, Now(Cur)))

\* hearth run
ProcessExecuteTasksRequested ==
    /\ Len(file) < MaxLog
    /\ Call(ExecuteTasksRequested(Now(Cur)))

\* h.GetNextTask()
CallGetNextTask ==
    /\ \E t \in GetNextTask(tasks) : last' = [call |-> "GetNextTask", task |-> t]
    /\ UNCHANGED <<tasks, file, clock, writes>>
    /\ UNCHANGED shared

\* a new instance on the same workspace: the state is replayed from the file
NewHearth ==
    /\ tasks' \in Replay(GetAll(file))
    /\ last' = [call |-> "NewHearth", err |-> Nil]
    /\ UNCHANGED <<file, clock, writes>>
    /\ UNCHANGED shared

\* repo.SetAll(repo.GetAll())
CallSetAll ==
    /\ file' = SetAll(file, GetAll(file))
    /\ last' = [call |-> "SetAll"]
    /\ UNCHANGED <<tasks, clock, writes>>
    /\ UNCHANGED shared

Next ==
    \/ ProcessTaskCreated
    \/ ProcessTaskCreatedAgain
    \/ ProcessTaskStarted
    \/ ProcessTaskCompleted
    \/ ProcessExecuteTasksRequested
    \/ NewHearth
    \/ CallSetAll

Spec == Init /\ [][Next]_vars

----------------------------------------------------------------------------
(* The scheduler on its own: findNextTask is a pure function of the task   *)
(* set, so it is applied to every task set within the bounds: up to        *)
(* MaxSched tasks, each a root or the child of an earlier ID, in any       *)
(* status, with creation times that may tie or run against the ID order.   *)

Statuses == {"todo", "in-progress", "completed"}

Index(id) == CHOOSE n \in 1..Len(IdOrder) : IdOrder[n] = id

\* the task set of k tasks with the given parents, statuses and creation
\* times, the second task depending on dep
SchedTasks(k, parent, dep, status, created) ==
    [id \in {IdOrder[i] : i \in 1..k} |->
        [ID |-> id, Title |-> "a", ParentID |-> parent[Index(id)],
         DependsOn |-> IF Index(id) = 2 THEN dep ELSE Nil,
         Status |-> status[Index(id)], CreatedAt |-> created[Index(id)],
         CompletedAt |-> IF status[Index(id)] = "completed" THEN MaxTime + 1 ELSE NoTime]]

SchedInit ==
    /\ \E k \in 0..MaxSched :
       \E parent \in [1..k -> {Nil} \cup {IdOrder[j] : j \in 1..k}] :
       \E dep \in {Nil, "T1"} :
       \E status \in [1..k -> Statuses] :
       \E created \in [1..k -> 1..MaxTime] :
           /\ \A i \in 1..k : IF parent[i] = Nil THEN TRUE ELSE Index(parent[i]) < i
           /\ IF dep = Nil THEN TRUE ELSE k >= 2
           /\ tasks = SchedTasks(k, parent, dep, status, created)
    /\ file = <<>>
    /\ clock = MaxTime + 1
    /\ writes = [id \in TaskIDs |-> 0]
    /\ last = [call |-> "NewHearth", err |-> Nil]
    /\ lock = Nil
    /\ procs = <<>>
    /\ written = {}

SchedNext == CallGetNextTask

SchedSpec == SchedInit /\ [][SchedNext]_vars

\* the ID of a task that no task set holds
Absent == "T9"

\* the scheduler on task sets in which a ParentID may name an absent task
OrphanInit ==
    /\ \E k \in 1..MaxSched :
       \E parent \in [1..k -> {Nil, Absent} \cup {IdOrder[j] : j \in 1..k}] :
       \E status \in [1..k -> Statuses] :
       \E created \in [1..k -> 1..MaxTime] :
           /\ \A i \in 1..k :
                 IF parent[i] \in {Nil, Absent} THEN TRUE ELSE Index(parent[i]) < i
           /\ \E i \in 1..k : parent[i] = Absent
           /\ tasks = SchedTasks(k, parent, Nil, status, created)
    /\ file = <<>>
    /\ clock = MaxTime + 1
    /\ writes = [id \in TaskIDs |-> 0]
    /\ last = [call |-> "NewHearth", err |-> Nil]
    /\ lock = Nil
    /\ procs = <<>>
    /\ written = {}

OrphanNext == CallGetNextTask

OrphanSpec == OrphanInit /\ [][OrphanNext]_vars

----------------------------------------------------------------------------
(* Replay on its own: the projection of an event list is a function of the *)
(* list, whoever wrote it, so replay is applied to every list of up to     *)
(* MaxReplay task events, whether or not a validator would have let them   *)
(* through.                                                                *)

ReplayEvents(t) ==
    {TaskCreated(id, "a", parent, Nil, t) : id \in TaskIDs, parent \in {Nil, "T1", "T2"}}
    \cup {TaskStarted(id, t) : id \in TaskIDs}
    \cup {TaskCompleted(id, t) : id \in TaskIDs}

ReplayInit == Init

\* some process writes one more event to the workspace
WriteEvent ==
    /\ Len(file) < MaxReplay
    /\ \E e \in ReplayEvents(clock + 1) : file' = SetAll(file, Append(GetAll(file), e))
    /\ clock' = clock + 1
    /\ UNCHANGED <<tasks, writes, last>>
    /\ UNCHANGED shared

\* the log is replayed, and replayed again
ReplayTwice ==
    /\ \E once \in Replay(GetAll(file)) : \E again \in Replay(GetAll(file)) :
           /\ tasks' = once
           /\ last' = [call |-> "Replay", again |-> again]
    /\ UNCHANGED <<file, clock, writes>>
    /\ UNCHANGED shared

ReplayNext == WriteEvent \/ ReplayTwice

ReplaySpec == ReplayInit /\ [][ReplayNext]_vars

----------------------------------------------------------------------------
(* Several processes on one workspace, each with its own FileRepository.   *)
(* An Add is the steps of withFileLock and of the function it runs: flock, *)
(* read, truncate, write, unlock.  Steps of different processes interleave *)
(* freely; flock(LOCK_EX) returns only when no other process holds it.     *)

MaxProcs == 2           \* processes on the workspace
MaxAdds == 2            \* Add calls of each process

ProcOrder == <<"p1", "p2", "p3", "p4">>
Procs == {ProcOrder[i] : i \in 1..MaxProcs}
ProcIndex(p) == CHOOSE n \in 1..Len(ProcOrder) : ProcOrder[n] = p

\* the event of the n-th Add of process p
AddedEvent(p, n) == TaskStarted(IdOrder[ProcIndex(p)], n)

\* a lock that every caller obtains at once
FlockShared(holder) == TRUE

\* syscall.Flock(fd, LOCK_EX) can return: no other open file holds the lock
Flock(holder) == holder = Nil

Idle == [pc |-> "idle", n |-> 0, existing |-> <<>>, seen |-> <<>>, reads |-> 0]

RepoInit ==
    /\ tasks = EmptyTasks
    /\ file = <<>>
    /\ clock = 0
    /\ writes = [id \in TaskIDs |-> 0]
    /\ last = [call |-> "NewHearth", err |-> Nil]
    /\ lock = Nil
    /\ procs = [p \in Procs |-> Idle]
    /\ written = {}

\* withFileLock: open the file and take the exclusive lock
AddLock(p) ==
    /\ procs[p].pc = "idle"
    /\ procs[p].n < MaxAdds
    /\ Flock(lock)
    /\ lock' = p
    /\ procs' = [procs EXCEPT ![p].pc = "locked"]
    /\ UNCHANGED <<tasks, file, clock, writes, last, written>>

\* existing, err := r.readEvents(file, engine); existing = append(existing, event)
AddRead(p) ==
    /\ procs[p].pc = "locked"
    /\ ~readEvents(file).err
    /\ procs' = [procs EXCEPT ![p].pc = "read",
                              ![p].existing = Append(readEvents(file).events,
                                                     AddedEvent(p, procs[p].n + 1))]
    /\ UNCHANGED <<tasks, file, clock, writes, last, lock, written>>

\* writeEvents: file.Truncate(0)
AddTruncate(p) ==
    /\ procs[p].pc = "read"
    /\ file' = <<>>
    /\ procs' = [procs EXCEPT ![p].pc = "truncated"]
    /\ UNCHANGED <<tasks, clock, writes, last, lock, written>>

\* writeEvents: file.Write(data)
AddWrite(p) ==
    /\ procs[p].pc = "truncated"
    /\ file' = MarshalEvents(procs[p].existing)
    /\ written' = written \cup {procs[p].existing}
    /\ procs' = [procs EXCEPT ![p].pc = "written"]
    /\ UNCHANGED <<tasks, clock, writes, last, lock>>

\* the deferred unlock and close; Add returns nil
AddUnlock(p) ==
    /\ procs[p].pc = "written"
    /\ lock' = IF lock = p THEN Nil ELSE lock
    /\ procs' = [procs EXCEPT ![p].pc = "idle", ![p].n = @ + 1, ![p].existing = <<>>]
    /\ last' = [call |-> "Add", proc |-> p, err |-> Nil]
    /\ UNCHANGED <<tasks, file, clock, writes, written>>

\* GetAll: lock, read, unlock; the lock is held from the first to the last
RepoGetAll(p) ==
    /\ procs[p].pc = "idle"
    /\ procs[p].reads < MaxAdds
    /\ Flock(lock)
    /\ procs' = [procs EXCEPT ![p].seen = GetAll(file), ![p].reads = @ + 1]
    /\ last' = [call |-> "GetAll", proc |-> p, events |-> GetAll(file)]
    /\ UNCHANGED <<tasks, file, clock, writes, lock, written>>

RepoNext ==
    \E p \in Procs :
        \/ AddLock(p)
        \/ AddRead(p)
        \/ AddTruncate(p)
        \/ AddWrite(p)
        \/ AddUnlock(p)
        \/ RepoGetAll(p)

RepoSpec == RepoInit /\ [][RepoNext]_vars

----------------------------------------------------------------------------
(* Instances that keep their log in memory and save it with SaveToFile     *)
(* (persistence.go).  NewHearthWithPersistence reads the file without      *)
(* taking the lock; SaveToFile locks, reads, merges, truncates, writes and *)
(* unlocks.  The processes read one wall clock, which may return the same  *)
(* value to two calls.                                                     *)

MaxWall == 2            \* values of the wall clock
MaxLocal == 1           \* events an instance processes

\* fmt.Sprintf("%s-%d", e.Type(), e.Timestamp().UnixNano())
Key(e) == <<e.type, e.Time>>

Keys(evs) == {Key(evs[i]) : i \in 1..Len(evs)}

\* a merge that appends all of current
mergeEventsAppendAll(existing, current) == existing \o current

\* a merge that keeps the local log and drops what is on disk
mergeEventsLocalOnly(existing, current) == current

\* mergeEvents: existing, then the events of current whose key is not in existing
mergeEvents(existing, current) ==
    LET existingMap == Keys(existing)
        isNew(e) == Key(e) \notin existingMap
    IN  existing \o SelectSeq(current, isNew)

NoInstance ==
    [pc |-> "idle", loaded |-> FALSE, dirty |-> FALSE, events |-> <<>>, n |-> 0,
     existing |-> <<>>, merged |-> <<>>]

MergeInit ==
    /\ tasks = EmptyTasks
    /\ file = <<>>
    /\ clock = 1
    /\ writes = [id \in TaskIDs |-> 0]
    /\ last = [call |-> "NewHearth", err |-> Nil]
    /\ lock = Nil
    /\ procs = [p \in Procs |-> NoInstance]
    /\ written = {}

\* time passes
Tick ==
    /\ clock < MaxWall
    /\ clock' = clock + 1
    /\ UNCHANGED <<tasks, file, writes, last, lock, procs, written>>

\* the file exists with size 0: a SaveToFile has created or truncated it and
\* has not written yet
SizeZero == \E p \in Procs : procs[p].pc \in {"locked", "read", "truncated"} /\ file = <<>>

\* NewHearthWithPersistence: os.Stat, os.ReadFile, UnmarshalEvents, with no
\* lock.  What UnmarshalEvents makes of zero bytes is the engine's affair: an
\* error, or no events
Load(p) ==
    /\ procs[p].pc = "idle"
    /\ ~procs[p].dirty
    /\ ~readEvents(file).err
    /\ \E failed \in IF SizeZero THEN {TRUE, FALSE} ELSE {FALSE} :
         /\ procs' = [procs EXCEPT ![p].loaded = ~failed,
                                   ![p].events = IF failed THEN <<>> ELSE GetAll(file)]
         /\ last' = [call |-> "NewHearthWithPersistence", proc |-> p,
                     err |-> IF failed THEN "failed to unmarshal events" ELSE Nil,
                     events |-> GetAll(file), first |-> written = {}]
    /\ UNCHANGED <<tasks, file, clock, writes, lock, written>>

\* the task the instance of p creates
LocalTask(p, n) == IdOrder[(ProcIndex(p) - 1) * 2 + n]

\* h.Process(&TaskCreated{..., Time: time.Now()}) on an instance without a
\* repository: the engine appends the event to its log in memory
ProcessLocal(p) ==
    /\ procs[p].pc = "idle"
    /\ procs[p].loaded
    /\ procs[p].n < MaxLocal
    /\ procs[p].n < 2
    /\ procs' = [procs EXCEPT
                   ![p].events = Append(@, TaskCreated(LocalTask(p, procs[p].n + 1),
                                                       "a", Nil, Nil, clock)),
                   ![p].n = @ + 1,
                   ![p].dirty = TRUE]
    /\ UNCHANGED <<tasks, file, clock, writes, last, lock, written>>

\* SaveToFile: OpenFile, Flock
SaveLock(p) ==
    /\ procs[p].pc = "idle"
    /\ procs[p].loaded
    /\ procs[p].dirty
    /\ Flock(lock)
    /\ lock' = p
    /\ procs' = [procs EXCEPT ![p].pc = "locked"]
    /\ UNCHANGED <<tasks, file, clock, writes, last, written>>

\* SaveToFile: read the file, merge it with h.engine.GetEvents()
SaveRead(p) ==
    /\ procs[p].pc = "locked"
    /\ ~readEvents(file).err
    /\ procs' = [procs EXCEPT ![p].pc = "read",
                              ![p].existing = GetAll(file),
                              ![p].merged = mergeEvents(GetAll(file), procs[p].events)]
    /\ UNCHANGED <<tasks, file, clock, writes, last, lock, written>>

\* SaveToFile: file.Truncate(0)
SaveTruncate(p) ==
    /\ procs[p].pc = "read"
    /\ file' = <<>>
    /\ procs' = [procs EXCEPT ![p].pc = "truncated"]
    /\ UNCHANGED <<tasks, clock, writes, last, lock, written>>

\* SaveToFile: file.Seek, file.Write
SaveWrite(p) ==
    /\ procs[p].pc = "truncated"
    /\ file' = MarshalEvents(procs[p].merged)
    /\ written' = written \cup {procs[p].merged}
    /\ procs' = [procs EXCEPT ![p].pc = "written"]
    /\ UNCHANGED <<tasks, clock, writes, last, lock>>

\* SaveToFile: the deferred unlock and close; it returns nil
SaveUnlock(p) ==
    /\ procs[p].pc = "written"
    /\ lock' = IF lock = p THEN Nil ELSE lock
    /\ procs' = [procs EXCEPT ![p].pc = "idle", ![p].dirty = FALSE,
                              ![p].existing = <<>>, ![p].merged = <<>>]
    /\ last' = [call |-> "SaveToFile", proc |-> p, err |-> Nil]
    /\ UNCHANGED <<tasks, file, clock, writes, written>>

MergeNext ==
    \/ Tick
    \/ \E p \in Procs :
        \/ Load(p)
        \/ ProcessLocal(p)
        \/ SaveLock(p)
        \/ SaveRead(p)
        \/ SaveTruncate(p)
        \/ SaveWrite(p)
        \/ SaveUnlock(p)

MergeSpec == MergeInit /\ [][MergeNext]_vars

----------------------------------------------------------------------------
(* mergeEvents as a function of two event lists *)

MaxMerge == 2           \* length of the lists given to mergeEvents

\* events of two kinds, for two tasks, at every value of the wall clock
MergeEvents ==
    UNION {{TaskCreated("T1", "a", Nil, Nil, t),
            TaskCreated("T2", "a", Nil, Nil, t),
            TaskStarted("T1", t)} : t \in 1..MaxWall}

MergeLists == UNION {[1..n -> MergeEvents] : n \in 0..MaxMerge}

MergeFnInit ==
    /\ tasks = EmptyTasks
    /\ file = <<>>
    /\ clock = 1
    /\ writes = [id \in TaskIDs |-> 0]
    /\ \E existing \in MergeLists, current \in MergeLists :
           last = [call |-> "none", existing |-> existing, current |-> current]
    /\ lock = Nil
    /\ procs = <<>>
    /\ written = {}

\* one call of mergeEvents(existing, current), and one of it on (existing, existing)
CallMerge ==
    /\ last.call = "none"
    /\ last' = [call |-> "mergeEvents",
                existing |-> last.existing,
                current |-> last.current,
                merged |-> mergeEvents(last.existing, last.current),
                self |-> mergeEvents(last.existing, last.existing)]
    /\ UNCHANGED <<tasks, file, clock, writes, lock, procs, written>>

MergeFnNext == CallMerge

MergeFnSpec == MergeFnInit /\ [][MergeFnNext]_vars

----------------------------------------------------------------------------
(* One Hearth instance on a workspace whose events.json another writer may *)
(* leave malformed.                                                        *)

MaxFaultTime == 3       \* callers stop issuing events at this clock value

FaultInit == Init

\* a record that no event factory can decode
Malformed == <<"?">>

\* the file becomes malformed: a write that stopped half way, or an edit
Corrupt ==
    /\ ~readEvents(file).err
    /\ file' = Append(file, Malformed)
    /\ last' = [call |-> "Corrupt"]
    /\ UNCHANGED <<tasks, clock, writes>>
    /\ UNCHANGED shared

FaultTaskCreated ==
    /\ clock < MaxFaultTime
    /\ \E id \in FreshIDs(Cur) : Call(TaskCreated(id, "a", Nil, Nil, Now(Cur)))

FaultTaskStarted ==
    /\ clock < MaxFaultTime
    /\ \E id \in TaskIDs : Call(TaskStarted(id, Now(Cur)))

FaultTaskCompleted ==
    /\ clock < MaxFaultTime
    /\ \E id \in TaskIDs : Call(TaskCompleted(id, Now(Cur)))

FaultExecuteTasksRequested ==
    /\ clock < MaxFaultTime
    /\ Call(ExecuteTasksRequested(Now(Cur)))

FaultNext ==
    \/ Corrupt
    \/ FaultTaskCreated
    \/ FaultTaskStarted
    \/ FaultTaskCompleted
    \/ FaultExecuteTasksRequested
    \/ NewHearth

FaultSpec == FaultInit /\ [][FaultNext]_vars

----------------------------------------------------------------------------
(* One Hearth instance whose callers also hand a SummaryRequested to       *)
(* Process, for a parent in the state in which onTaskCompletedParent asks  *)
(* for a summary: not completed, every child completed.                    *)

SummaryInit == Init

\* the parents whose children are all completed and which are not
AwaitingSummary(ts) ==
    {P \in DOMAIN ts :
        /\ ts[P].Status # "completed"
        /\ ChildrenOf(ts, P) # {}
        /\ \A c \in ChildrenOf(ts, P) : ts[c].Status = "completed"}

ProcessSummaryRequested ==
    /\ Len(file) < MaxLog
    /\ \E P \in AwaitingSummary(tasks) : Call(SummaryRequested(P, Now(Cur)))

SummaryNext ==
    \/ ProcessTaskCreated
    \/ ProcessTaskStarted
    \/ ProcessTaskCompleted
    \/ ProcessExecuteTasksRequested
    \/ ProcessSummaryRequested

SummarySpec == SummaryInit /\ [][SummaryNext]_vars

----------------------------------------------------------------------------
(* Repeated runs: tasks are added and hearth run is called again and again
   on one workspace, on a log long enough to hold two runs *)

MaxRunLog == 8

RunTaskCreated ==
    /\ Len(file) < MaxRunLog
    /\ \E id \in FreshIDs(Cur) : \E parent \in ParentChoices(id) :
           Call(TaskCreated(id, "a", parent, Nil, Now(Cur)))

RunTaskCreatedAgain ==
    /\ Len(file) < MaxRunLog
    /\ \E id \in DOMAIN tasks : Call(TaskCreated(id, "b", Nil, Nil, Now(Cur)))

RunExecuteTasksRequested ==
    /\ Len(file) < MaxRunLog
    /\ Call(ExecuteTasksRequested(Now(Cur)))

RunNext ==
    \/ RunTaskCreated
    \/ RunTaskCreatedAgain
    \/ RunExecuteTasksRequested

RunSpec == Init /\ [][RunNext]_vars

----------------------------------------------------------------------------
(* Completions after a summary: tasks are added and completed and the
   summary of a parent is requested, on a log long enough to hold a summary
   chain and the completions that follow it *)

MaxSummaryLog == 7

LateTaskCreated ==
    /\ Len(file) < MaxSummaryLog
    /\ \E id \in FreshIDs(Cur) : \E parent \in ParentChoices(id) :
           Call(TaskCreated(id, "a", parent, Nil, Now(Cur)))

LateTaskCompleted ==
    /\ Len(file) < MaxSummaryLog
    /\ \E id \in DOMAIN tasks : Call(TaskCompleted(id, Now(Cur)))

LateSummaryRequested ==
    /\ Len(file) < MaxSummaryLog
    /\ \E P \in AwaitingSummary(tasks) : Call(SummaryRequested(P, Now(Cur)))

LateNext ==
    \/ LateTaskCreated
    \/ LateTaskCompleted
    \/ LateSummaryRequested

LateSpec == SummaryInit /\ [][LateNext]_vars

----------------------------------------------------------------------------
(* Properties *)

Log == GetAll(file)

\* the last call was Process of an event of this type for this task
Processed(l, type, id) ==
    /\ l.call = "Process"
    /\ l.event.type = type
    /\ l.event.TaskID = id

HasOpenChild(ts, id) == \E c \in ChildrenOf(ts, id) : ts[c].Status # "completed"

\* C1: Process(TaskCompleted{P}) for a task P with a child that is not
\* completed returns ErrEventRejected, appends nothing to the event log and
\* leaves the task map unchanged.
C1_CompletionGuard ==
    [][\A p \in TaskIDs :
         (Processed(last', "task_completed", p) /\ HasOpenChild(tasks, p))
         => (last'.err = ErrEventRejected /\ file' = file /\ tasks' = tasks)]_vars

C1_Rejected ==
    /\ last.call = "Process"
    /\ last.event.type = "task_completed"
    /\ last.err = ErrEventRejected
    /\ Has(tasks, last.event.TaskID)
    /\ HasOpenChild(tasks, last.event.TaskID)
    /\ tasks[last.event.TaskID].Status = "todo"

\* the log starts with the creation of R as a root and of A and B under R
Family(log, R, A, B) ==
    /\ Cardinality({R, A, B}) = 3
    /\ Len(log) >= 3
    /\ \A i \in 1..3 : log[i].type = "task_created"
    /\ {log[i].TaskID : i \in 1..3} = {R, A, B}
    /\ \A i \in 1..3 : log[i].ParentID = IF log[i].TaskID = R THEN Nil ELSE R

Completion(log, i, id) ==
    Len(log) >= i /\ log[i].type = "task_completed" /\ log[i].TaskID = id

\* C2: with a root R whose only children are the leaves A and B, after the
\* completion of one of them R is not completed and its CompletedAt is not
\* assigned; after the completion of both, in either order, R is completed,
\* its CompletedAt was assigned once, at the second completion, and
\* GetNextTask returns none.
C2_CascadeAfterBoth ==
    LET log == Log
    IN  Len(file) \in {4, 5} =>
        \A R \in TaskIDs : \A A \in TaskIDs : \A B \in TaskIDs :
          Family(log, R, A, B) =>
            /\ (Len(log) = 4 /\ Completion(log, 4, A)) =>
                  /\ tasks[R].Status # "completed"
                  /\ tasks[R].CompletedAt = NoTime
                  /\ writes[R] = 0
            /\ (Len(log) = 5 /\ Completion(log, 4, A) /\ Completion(log, 5, B)) =>
                  /\ tasks[A].Status = "completed"
                  /\ tasks[B].Status = "completed"
                  /\ tasks[R].Status = "completed"
                  /\ tasks[R].CompletedAt = log[5].Time
                  /\ tasks[R].CompletedAt >= tasks[A].CompletedAt
                  /\ tasks[R].CompletedAt >= tasks[B].CompletedAt
                  /\ writes[R] = 1
                  /\ GetNextTask(tasks) = {Nil}

C2_BothCompleted ==
    \E R \in TaskIDs : \E A \in TaskIDs : \E B \in TaskIDs :
        /\ Family(Log, R, A, B)
        /\ Len(Log) = 5 /\ Completion(Log, 4, A) /\ Completion(Log, 5, B)
        /\ tasks[R].Status = "completed"
        /\ writes[R] = 1

\* the tasks above id on its ParentID chain
RECURSIVE AncestorsFrom(_, _, _)
AncestorsFrom(ts, id, seen) ==
    LET parentID == ts[id].ParentID
    IN  IF parentID = Nil THEN seen
        ELSE IF ~Has(ts, parentID) \/ parentID \in seen THEN seen
        ELSE AncestorsFrom(ts, parentID, seen \cup {parentID})

Ancestors(ts, id) == AncestorsFrom(ts, id, {})

\* C3: when Process(TaskCompleted{L}) is accepted for a leaf L, then on
\* return every ancestor of L is completed if all of its children are
\* completed, and is not completed if one of its children is not.
C3_CascadeTransitive ==
    [][\A l \in TaskIDs :
         (/\ Processed(last', "task_completed", l)
          /\ last'.err = Nil
          /\ Has(tasks, l)
          /\ ChildrenOf(tasks, l) = {})
         => \A x \in Ancestors(tasks', l) :
                (tasks'[x].Status = "completed") <=> ~HasOpenChild(tasks', x)]_vars

\* the depth-first pre-order walks of the forest: roots, and the children
\* of each task, in ascending CreatedAt order
RECURSIVE Walk(_, _)
Walk(nodes, ts) ==
    IF nodes = <<>> THEN {<<>>}
    ELSE {<<Head(nodes)>> \o below \o rest :
            below \in UNION {Walk(children, ts) :
                children \in SortByCreatedAt(ChildrenOf(ts, Head(nodes)), ts)},
            rest \in Walk(Tail(nodes), ts)}

PreOrders(ts) == UNION {Walk(roots, ts) : roots \in SortByCreatedAt(Roots(ts), ts)}

\* a leaf that is todo and whose dependency, if it has one, is completed
Eligible(ts, id) ==
    /\ ChildrenOf(ts, id) = {}
    /\ ts[id].Status = "todo"
    /\ \/ ts[id].DependsOn = Nil
       \/ Has(ts, ts[id].DependsOn) /\ ts[ts[id].DependsOn].Status = "completed"

FirstEligible(ts, walk) ==
    LET at == {i \in 1..Len(walk) : Eligible(ts, walk[i])}
    IN  IF at = {} THEN Nil ELSE walk[CHOOSE i \in at : \A j \in at : i <= j]

\* C4: GetNextTask returns the first eligible leaf of a depth-first
\* pre-order walk in ascending CreatedAt order, and none exactly when the
\* walk meets no eligible leaf.
C4_FirstEligibleLeaf ==
    last.call = "GetNextTask" =>
        last.task \in {FirstEligible(tasks, walk) : walk \in PreOrders(tasks)}

\* C5: GetNextTask returns only tasks that have no child and whose Status
\* is todo.
C5_OnlyTodoLeaves ==
    (last.call = "GetNextTask" /\ last.task # Nil) =>
        /\ Has(tasks, last.task)
        /\ ChildrenOf(tasks, last.task) = {}
        /\ tasks[last.task].Status = "todo"

C5_ReturnedPastTodoParent ==
    /\ last.call = "GetNextTask"
    /\ last.task # Nil
    /\ tasks[last.task].ParentID # Nil
    /\ tasks[tasks[last.task].ParentID].Status = "todo"

\* C6: GetNextTask does not return a task whose DependsOn names a task
\* that is absent or not completed.
C6_DependencyGate ==
    \A t2 \in DOMAIN tasks :
        (/\ tasks[t2].DependsOn # Nil
         /\ \/ ~Has(tasks, tasks[t2].DependsOn)
            \/ tasks[tasks[t2].DependsOn].Status # "completed")
        => t2 \notin GetNextTask(tasks)

Rank(status) ==
    CASE status = "todo" -> 0
      [] status = "in-progress" -> 1
      [] status = "completed" -> 2

\* C7: no step takes the Status of a task backwards along
\* todo, in-progress, completed.
C7_StatusMonotone ==
    [][\A id \in DOMAIN tasks :
         /\ Has(tasks', id)
         /\ Rank(tasks'[id].Status) >= Rank(tasks[id].Status)]_vars

\* C8: CompletedAt changes only in a step that takes Status to completed,
\* and never again once it is assigned.
C8_CompletedAtOnce ==
    [][\A id \in DOMAIN tasks :
         /\ Has(tasks', id)
         /\ tasks[id].CompletedAt # NoTime =>
                tasks'[id].CompletedAt = tasks[id].CompletedAt
         /\ tasks'[id].CompletedAt # tasks[id].CompletedAt =>
                (tasks[id].Status # "completed" /\ tasks'[id].Status = "completed")]_vars

\* C9: replaying an event list twice yields the same task map.
C9_ReplayDeterministic ==
    last.call = "Replay" => last.again = tasks

C9_ReplayedCascade ==
    /\ last.call = "Replay"
    /\ \E parentID \in DOMAIN tasks :
          /\ tasks[parentID].Status # "completed"
          /\ \E a \in ChildrenOf(tasks, parentID) : tasks[a].Status = "completed"
          /\ \E b \in ChildrenOf(tasks, parentID) : tasks[b].Status # "completed"

\* the fields of the task map a reloaded instance must reproduce
View(ts) ==
    [id \in DOMAIN ts |->
        [ID |-> ts[id].ID, Status |-> ts[id].Status,
         ParentID |-> ts[id].ParentID, DependsOn |-> ts[id].DependsOn]]

Ran(l) == l.call = "Process" /\ l.event.type = "execute_tasks_requested"

\* the log ends with NextTaskSelected{TaskID: ""}
Halted(log) ==
    /\ Len(log) > 0
    /\ log[Len(log)].type = "next_task_selected"
    /\ log[Len(log)].TaskID = Empty

\* a dependency on a task that no event created
Unsatisfiable(ts, id) == ts[id].DependsOn # Nil /\ ~Has(ts, ts[id].DependsOn)

\* the tasks the events log[from..] selected
Selected(log, from) ==
    {log[i].TaskID : i \in {j \in from..Len(log) :
        log[j].type = "next_task_selected" /\ log[j].TaskID # Empty}}

\* following ParentID from a task never returns to it
Acyclic(ts) == \A id \in DOMAIN ts : id \notin Ancestors(ts, id)

\* every ParentID names a task of the map
ParentsPresent(ts) == \A id \in DOMAIN ts : ts[id].ParentID = Nil \/ Has(ts, ts[id].ParentID)

C19_ParentForest == Acyclic(tasks)

\* the subtree of a task: the task and what ChildrenOf reaches from it
RECURSIVE SubtreeFrom(_, _, _)
SubtreeFrom(ts, frontier, seen) ==
    IF frontier = {} THEN seen
    ELSE LET next == UNION {ChildrenOf(ts, x) : x \in frontier} \ seen
         IN  SubtreeFrom(ts, next, seen \cup next)

Subtree(ts, id) == SubtreeFrom(ts, {id}, {id})

\* A and B are siblings, A created before B
EarlierSibling(ts, A, B) ==
    /\ A # B
    /\ ts[A].ParentID = ts[B].ParentID
    /\ ts[A].CreatedAt < ts[B].CreatedAt

\* the task map when the i-th event of the call was emitted
TasksAt(ts, emitted, i) == CHOOSE t \in ReplayFrom(ts, SubSeq(emitted, 1, i - 1)) : TRUE

HasOpenTask(ts, A) == \E x \in Subtree(ts, A) : ts[x].Status # "completed"

HasTodoLeaf(ts, A) ==
    \E x \in Subtree(ts, A) : ChildrenOf(ts, x) = {} /\ ts[x].Status = "todo"

\* the selections of the call made while a sibling A, created before the
\* sibling B whose subtree holds the selected task, still has an open task
\* (open) or a todo leaf (otherwise)
EarlySelections(ts, emitted, open) ==
    {i \in 1..Len(emitted) :
        /\ emitted[i].type = "next_task_selected"
        /\ emitted[i].TaskID # Empty
        /\ LET at == TasksAt(ts, emitted, i)
           IN  \E A \in DOMAIN at : \E B \in DOMAIN at :
                 /\ EarlierSibling(at, A, B)
                 /\ emitted[i].TaskID \in Subtree(at, B)
                 /\ IF open THEN HasOpenTask(at, A) ELSE HasTodoLeaf(at, A)}

C12_NoLostUpdate ==
    (\A p \in Procs : procs[p].pc = "idle") =>
        LET log == GetAll(file)
        IN  /\ \A p \in Procs : \A i \in 1..procs[p].n : Count(log, AddedEvent(p, i)) = 1
            /\ \A i \in 1..Len(log) :
                  \E p \in Procs : \E n \in 1..procs[p].n : log[i] = AddedEvent(p, n)

\* every process has returned from all its Add calls, and their events are
\* interleaved in the file
C12_AllAdded ==
    /\ \A p \in Procs : procs[p].pc = "idle" /\ procs[p].n = MaxAdds
    /\ Len(GetAll(file)) = MaxProcs * MaxAdds
    /\ GetAll(file)[1].TaskID # GetAll(file)[2].TaskID

\* C13: every read, by GetAll or by loading an instance, returns the event
\* list that some completed write left in the file, or the empty list
\* before the first write; it never fails on, or returns, a truncated file.
C13_SnapshotReads ==
    last.call = "NewHearthWithPersistence" =>
        /\ last.err = Nil
        /\ \/ last.events \in written
           \/ last.first /\ last.events = <<>>

Contains(log, e) == \E i \in 1..Len(log) : log[i] = e

\* C14: when no SaveToFile is under way, the file holds every event a
\* completed write had put on disk and every event of each instance that
\* has saved, and an instance loaded now has the tasks all of them created.
C14_MergeKeepsUnion ==
    (\A p \in Procs : procs[p].pc = "idle") =>
        LET log == GetAll(file)
            known == UNION {{w[i] : i \in 1..Len(w)} : w \in written}
                     \cup UNION {{procs[p].events[i] : i \in 1..Len(procs[p].events)} :
                                   p \in {q \in Procs : procs[q].loaded /\ ~procs[q].dirty}}
        IN  /\ \A e \in known : Contains(log, e)
            /\ \A third \in Replay(log) :
                  \A e \in known : e.type = "task_created" => Has(third, e.TaskID)

\* how many entries of the list have this key
KeyCount(evs, k) == Cardinality({i \in 1..Len(evs) : Key(evs[i]) = k})

DuplicateKeys(evs) == \E k \in Keys(evs) : KeyCount(evs, k) > 1

\* C15 as stated: mergeEvents(L, L) is L, and the merged result of any two
\* lists has no two entries with the same (kind, timestamp) key.
C15_MergeNoDuplicateKeys ==
    last.call = "mergeEvents" =>
        /\ last.self = last.existing
        /\ ~DuplicateKeys(last.merged)

\* C15: mergeEvents(L, L) is L for every list L, and merging adds no
\* duplicate of its own: the result begins with existing, and a key occurs
\* in it as often as in existing when it occurs there and as often as in
\* current otherwise, so it has two entries with one key only when one of
\* the two lists already has.
C15_MergeIdempotent ==
    last.call = "mergeEvents" =>
        /\ last.self = last.existing
        /\ SubSeq(last.merged, 1, Len(last.existing)) = last.existing
        /\ \A k \in Keys(last.existing) \cup Keys(last.current) \cup Keys(last.merged) :
              KeyCount(last.merged, k) =
                  IF k \in Keys(last.existing) THEN KeyCount(last.existing, k)
                  ELSE KeyCount(last.current, k)
        /\ (~DuplicateKeys(last.existing) /\ ~DuplicateKeys(last.current))
               => ~DuplicateKeys(last.merged)

\* a merge of two lists that share a key and each have one the other lacks
C15_MergedOverlap ==
    /\ last.call = "mergeEvents"
    /\ Len(last.existing) = MaxMerge
    /\ Len(last.current) = MaxMerge
    /\ ~DuplicateKeys(last.existing)
    /\ ~DuplicateKeys(last.current)
    /\ Keys(last.existing) \cap Keys(last.current) # {}
    /\ Len(last.merged) = Len(last.existing) + 1
    /\ last.self = last.existing

\* C17: an instance created over malformed event data is not returned
\* without an error.
C17_ReplayFailureReported ==
    (last.call = "NewHearth" /\ readEvents(file).err) => last.err # Nil

\* C18: when repo.Add fails during a Process call, the call returns an error
\* that is not ErrEventRejected.
C18_PersistenceFailureReported ==
    (last.call = "Process" /\ last.failed) => last.err \notin {Nil, ErrEventRejected}

\* C21: the scheduler is deterministic: the task a GetNextTask call returned
\* is the only one findNextTask can return for the task set, in whatever
\* order the map hands the tasks over, ties of CreatedAt included.
C21_SchedulerDeterministic ==
    last.call = "GetNextTask" => findNextTask(tasks) = {last.task}

\* the call emitted SummaryRequested{P}, then SummaryGenerated{P}, then
\* TaskCompleted{P}
SummaryThenCompleted(emitted, P) ==
    \E i \in 1..Len(emitted) : \E j \in 1..Len(emitted) : \E k \in 1..Len(emitted) :
        /\ i < j /\ j < k
        /\ emitted[i].type = "summary_requested" /\ emitted[i].ParentTaskID = P
        /\ emitted[j].type = "summary_generated" /\ emitted[j].ParentTaskID = P
        /\ emitted[k].type = "task_completed" /\ emitted[k].TaskID = P

\* C22: a task P with children that becomes completed during a Process call
\* for another event was completed by the summary chain: the call emitted
\* SummaryRequested{P}, SummaryGenerated{P} and TaskCompleted{P}, in that
\* order; P is never completed directly.
C22_SummaryBeforeParentCompletion ==
    [][\A P \in DOMAIN tasks :
         (/\ last'.call = "Process"
          /\ tasks[P].Status # "completed"
          /\ Has(tasks', P)
          /\ tasks'[P].Status = "completed"
          /\ ChildrenOf(tasks', P) # {}
          /\ ~(last'.event.type = "task_completed" /\ last'.event.TaskID = P))
         => SummaryThenCompleted(last'.emitted, P)]_vars

\* the call emitted an event of this type for this task
EmittedFor(emitted, type, id) ==
    \E i \in 1..Len(emitted) : emitted[i].type = type /\ emitted[i].TaskID = id

\* C29: a Process call of a TaskCompleted changes the Status to completed,
\* or the CompletedAt, only of tasks for which it emitted a TaskCompleted:
\* the reducer touches the task the event names and no ancestor of it.
C29_CompletedChangesOnlyNamedTask ==
    [][\A x \in DOMAIN tasks :
         (/\ last'.call = "Process"
          /\ last'.event.type = "task_completed"
          /\ Has(tasks', x)
          /\ \/ tasks'[x].CompletedAt # tasks[x].CompletedAt
             \/ tasks'[x].Status = "completed" /\ tasks[x].Status # "completed")
         => EmittedFor(last'.emitted, "task_completed", x)]_vars

\* C23: no TaskCompleted{P} that onSummaryGenerated emits is rejected by the
\* completion validator: a call that has emitted SummaryGenerated{P} has no
\* rejected TaskCompleted{P}.
C23_CascadeCompletionAccepted ==
    last.call = "Process" =>
        \A i \in 1..Len(last.rejected) :
            ~ \E j \in 1..Len(last.emitted) :
                /\ last.emitted[j].type = "summary_generated"
                /\ last.emitted[j].ParentTaskID = last.rejected[i].TaskID

\* the entry that precedes the i-th event of the call in the log
Preceding(log, emitted, i) ==
    IF i > 1 THEN emitted[i - 1]
    ELSE IF log # <<>> THEN log[Len(log)]
    ELSE [type |-> "none"]

\* the i-th event of the call is a TaskCompleted{t} whose preceding log
\* entry is TaskExecuted{t}
DrivenByLoop(log, emitted, i) ==
    LET p == Preceding(log, emitted, i)
    IN  p.type = "task_executed" /\ p.TaskID = emitted[i].TaskID

C25_ExecutedThenDescendOrComplete ==
    [][last'.call = "Process" =>
         LET E == last'.emitted
         IN  \A i \in 1..Len(E) :
               (E[i].type = "task_executed" /\ Has(TasksAt(tasks, E, i + 1), E[i].TaskID)) =>
                  LET t == E[i].TaskID
                      at == TasksAt(tasks, E, i + 1)
                      children == ChildrenOf(at, t)
                  IN  /\ i < Len(E)
                      /\ IF children # {}
                         THEN /\ E[i + 1].type = "next_task_selected"
                              /\ at[t].Status # "completed"
                              /\ \A j \in (i + 1)..Len(E) :
                                    LET later == TasksAt(tasks, E, j + 1)
                                    IN  later[t].Status = "completed" =>
                                          \A c \in children : later[c].Status = "completed"
                         ELSE /\ E[i + 1].type = "task_completed"
                              /\ E[i + 1].TaskID = t]_vars

\* a run executed a task that spawned a subtask, descended into the subtask
\* and completed it, and the task was completed with it
C25_DescendedIntoSpawned ==
    /\ Ran(last)
    /\ \E i \in 1..(Len(last.emitted) - 1) : \E k \in 1..(Len(last.emitted) - 1) :
          /\ i < k
          /\ last.emitted[i].type = "task_executed"
          /\ last.emitted[i + 1].type = "next_task_selected"
          /\ last.emitted[i + 1].TaskID # Empty
          /\ tasks[last.emitted[i + 1].TaskID].ParentID = last.emitted[i].TaskID
          /\ last.emitted[k].type = "task_executed"
          /\ last.emitted[k].TaskID = last.emitted[i + 1].TaskID
          /\ last.emitted[k + 1].type = "task_completed"
          /\ last.emitted[k + 1].TaskID = last.emitted[k].TaskID
          /\ tasks[last.emitted[i].TaskID].Status = "completed"

\* C26: in the events of a call, a NextTaskSelected with non-empty TaskID t
\* is followed by TaskExecuted{t} with no NextTaskSelected in between, and a
\* NextTaskSelected with empty TaskID is the last event of the call.
C26_OneTaskInFlight ==
    [][last'.call = "Process" =>
         LET E == last'.emitted
         IN  \A i \in 1..Len(E) :
               E[i].type = "next_task_selected" =>
                  IF E[i].TaskID = Empty
                  THEN i = Len(E)
                  ELSE \E j \in (i + 1)..Len(E) :
                         /\ E[j].type = "task_executed"
                         /\ E[j].TaskID = E[i].TaskID
                         /\ \A k \in (i + 1)..(j - 1) : E[k].type # "next_task_selected"]_vars

\* a run selected and executed two tasks, one after the other, and halted
C26_TwoSelectedInTurn ==
    /\ Ran(last)
    /\ last.emitted[Len(last.emitted)].type = "next_task_selected"
    /\ last.emitted[Len(last.emitted)].TaskID = Empty
    /\ \E i \in 1..Len(last.emitted) : \E j \in 1..Len(last.emitted) :
          /\ i < j
          /\ last.emitted[i].type = "next_task_selected"
          /\ last.emitted[j].type = "next_task_selected"
          /\ last.emitted[i].TaskID # Empty
          /\ last.emitted[j].TaskID # Empty
          /\ last.emitted[i].TaskID # last.emitted[j].TaskID

\* C27: a TaskCreated for a TaskID that is already in the task map leaves
\* the task as it was: Title, ParentID, DependsOn, Status, CreatedAt and
\* CompletedAt are unchanged.
C27_CreateExistingIsNoOp ==
    [][(/\ last'.call = "Process"
        /\ last'.event.type = "task_created"
        /\ Has(tasks, last'.event.TaskID))
       => /\ Has(tasks', last'.event.TaskID)
          /\ tasks'[last'.event.TaskID] = tasks[last'.event.TaskID]]_vars

\* C28: a TaskStarted changes the task map only by taking a todo task to
\* in-progress: for a task that is in-progress or completed, and for an
\* unknown TaskID, the task map is unchanged.
C28_StartOnlyFromTodo ==
    [][(last'.call = "Process" /\ last'.event.type = "task_started") =>
         LET id == last'.event.TaskID
         IN  IF Has(tasks, id) /\ tasks[id].Status = "todo"
             THEN tasks' = [tasks EXCEPT ![id].Status = "in-progress"]
             ELSE tasks' = tasks]_vars

\* C30: event by event through a Process call, the set of task IDs grows
\* only at a TaskCreated and never shrinks, and TaskExecuted,
\* ExecuteTasksRequested, SummaryRequested and SummaryGenerated leave the
\* task map as it is; the call ends in the task map so obtained.
C30_TaskSetGrowsOnlyByCreate ==
    [][last'.call = "Process" =>
         LET E == last'.emitted
         IN  /\ tasks' \in ReplayFrom(tasks, E)
             /\ DOMAIN tasks \subseteq DOMAIN tasks'
             /\ \A i \in 1..Len(E) :
                  \A before \in ReplayFrom(tasks, SubSeq(E, 1, i - 1)) :
                  \A after \in Reduce(before, E[i]) :
                     /\ DOMAIN before \subseteq DOMAIN after
                     /\ E[i].type # "task_created" => DOMAIN after = DOMAIN before
                     /\ E[i].type \in {"task_executed", "execute_tasks_requested",
                                       "summary_requested", "summary_generated"}
                            => after = before]_vars

\* a call went through a summary and a run: it emitted SummaryRequested,
\* SummaryGenerated, the parent's TaskCompleted and a TaskExecuted
C30_SummaryAndRun ==
    /\ last.call = "Process"
    /\ \E i \in 1..Len(last.emitted) : last.emitted[i].type = "summary_requested"
    /\ \E i \in 1..Len(last.emitted) : last.emitted[i].type = "summary_generated"
    /\ \E i \in 1..Len(last.emitted) : last.emitted[i].type = "task_completed"
    /\ \E i \in 1..Len(last.emitted) : last.emitted[i].type = "task_executed"

\* C31: when the execution of a task t fails, the call still emits
\* TaskExecuted{t}, with an empty ResultPath, returns without an error, and
\* does not go on to complete t as if the execution had succeeded.
C31_FailedExecutionLeftToCaller ==
    [][last'.call = "Process" =>
         LET E == last'.emitted
         IN  \A i \in 1..Len(E) :
               (/\ E[i].type = "task_executed"
                /\ E[i].ResultPath = Empty
                /\ Has(tasks', E[i].TaskID))
               => /\ last'.err = Nil
                  /\ \A j \in (i + 1)..Len(E) :
                        ~(E[j].type = "task_completed" /\ E[j].TaskID = E[i].TaskID)]_vars

IsPrefix(a, b) == Len(a) <= Len(b) /\ SubSeq(b, 1, Len(a)) = a

\* C32: every write that Add or SaveToFile makes to the file keeps what was
\* on disk: each event list a completed write had left there is a prefix of
\* the list the new write leaves.
C32_AppendOnly ==
    [][(file' # file /\ file' # <<>>) =>
         /\ IsPrefix(GetAll(file), GetAll(file'))
         /\ \A w \in written : IsPrefix(w, GetAll(file'))]_vars

\* two instances have saved one after the other and the file holds the
\* event of the first followed by the event of the second
C32_SecondSaveAppended ==
    /\ \A p \in Procs : procs[p].pc = "idle"
    /\ Len(GetAll(file)) = 2
    /\ \E w \in written : Len(w) = 1 /\ IsPrefix(w, GetAll(file))
    /\ \E p \in Procs : \E q \in Procs :
          /\ p # q
          /\ procs[p].loaded /\ procs[q].loaded
          /\ Len(procs[p].events) = 1 /\ Len(procs[q].events) = 1
          /\ GetAll(file) = procs[p].events \o procs[q].events

\* C33: in every reachable state a task whose Status is completed has no
\* child whose Status is not completed.
C33_CompletedHasNoOpenChild ==
    \A x \in TaskIDs :
        (Has(tasks, x) /\ tasks[x].Status = "completed")
        => \A c \in ChildrenOf(tasks, x) : tasks[c].Status = "completed"

\* how many entries of the log are events of this type for this task
Occurrences(log, type, id) ==
    Cardinality({i \in 1..Len(log) : log[i].type = type /\ log[i].TaskID = id})

\* C34: no task is executed twice: each TaskID is in at most one
\* TaskExecuted and in at most one NextTaskSelected of the log.
C34_ExecutedAtMostOnce ==
    \A id \in TaskIDs :
        /\ Occurrences(Log, "task_executed", id) <= 1
        /\ Occurrences(Log, "next_task_selected", id) <= 1

\* how many entries of the log are events of this type for this parent
SummaryOccurrences(log, type, P) ==
    Cardinality({i \in 1..Len(log) : log[i].type = type /\ log[i].ParentTaskID = P})

\* C35: SummaryRequested{P} and SummaryGenerated{P} are each in the log at
\* most once, and once SummaryRequested{P} is in the log a Process call of a
\* TaskCompleted emits neither for P.
C35_SummaryAtMostOnce ==
    [][\A P \in TaskIDs :
         /\ SummaryOccurrences(GetAll(file'), "summary_requested", P) <= 1
         /\ SummaryOccurrences(GetAll(file'), "summary_generated", P) <= 1
         /\ (/\ last'.call = "Process"
             /\ last'.event.type = "task_completed"
             /\ SummaryOccurrences(Log, "summary_requested", P) > 0)
            => \A i \in 1..Len(last'.emitted) :
                  last'.emitted[i].type \in {"summary_requested", "summary_generated"}
                  => last'.emitted[i].ParentTaskID # P]_vars

\* the summary of a parent has been requested and a child of it has been
\* completed again afterwards
C35_ChildCompletedAfterSummary ==
    /\ Acyclic(tasks)
    /\ last.call = "Process"
    /\ last.event.type = "task_completed"
    /\ last.err = Nil
    /\ Has(tasks, last.event.TaskID)
    /\ tasks[last.event.TaskID].ParentID # Nil
    /\ SummaryOccurrences(Log, "summary_requested", tasks[last.event.TaskID].ParentID) = 1
    /\ SummaryOccurrences(Log, "summary_generated", tasks[last.event.TaskID].ParentID) = 1

\* C36: in every reachable state and for every task, CompletedAt is set
\* exactly when Status is completed.
C36_CompletedAtIffCompleted ==
    \A id \in DOMAIN tasks :
        (tasks[id].CompletedAt # NoTime) <=> (tasks[id].Status = "completed")

\* C37: a leaf that is not eligible does not block the search: when the
\* task set holds an eligible leaf, GetNextTask returns a task, and the task
\* it returns is eligible, not a leaf that is waiting on a dependency.
C37_IneligibleLeafDoesNotBlock ==
    (/\ last.call = "GetNextTask"
     /\ \E x \in DOMAIN tasks : Eligible(tasks, x))
    => /\ last.task # Nil
       /\ Eligible(tasks, last.task)

\* the tasks whose ParentID names a task that is not in the map
Orphans(ts) == {x \in DOMAIN ts : ts[x].ParentID # Nil /\ ~Has(ts, ts[x].ParentID)}

\* C38: GetNextTask never returns a task whose ParentID names an absent
\* task, nor a descendant of such a task.
C38_OrphansNeverReturned ==
    last.call = "GetNextTask" =>
        \A x \in Orphans(tasks) : last.task \notin Subtree(tasks, x)

\* GetNextTask has passed over a todo leaf whose parent is a task with an
\* absent parent, both created before every root, and has returned a root
C38_OrphanLeafPassedOver ==
    /\ last.call = "GetNextTask"
    /\ last.task # Nil
    /\ \E x \in Orphans(tasks) : \E c \in ChildrenOf(tasks, x) :
          /\ ChildrenOf(tasks, c) = {}
          /\ tasks[c].Status = "todo"
          /\ \A r \in Roots(tasks) :
                tasks[x].CreatedAt < tasks[r].CreatedAt
                /\ tasks[c].CreatedAt < tasks[r].CreatedAt

\* C39 as stated: Process(TaskCompleted{x}) for an x that is not in the task
\* map returns nil, appends the event to the log and nothing else, leaves
\* the task map unchanged and emits no SummaryRequested and no
\* NextTaskSelected.
C39_UnknownCompletionIsInert ==
    [][\A x \in TaskIDs :
         (Processed(last', "task_completed", x) /\ ~Has(tasks, x))
         => /\ last'.err = Nil
            /\ tasks' = tasks
            /\ last'.emitted = <<last'.event>>
            /\ GetAll(file') = Append(Log, last'.event)]_vars

\* C39: Process(TaskCompleted{x}) for an x that is not in the task map and
\* that no task which is not completed names as its parent returns nil,
\* appends the event to the log and nothing else, leaves the task map
\* unchanged and emits no SummaryRequested and no NextTaskSelected; when a
\* task that is not completed names x as its parent the call is rejected
\* and changes nothing.
C39_UnknownCompletionInertUnlessOpenChild ==
    [][\A x \in TaskIDs :
         (Processed(last', "task_completed", x) /\ ~Has(tasks, x))
         => IF HasOpenChild(tasks, x)
            THEN /\ last'.err = ErrEventRejected
                 /\ tasks' = tasks
                 /\ file' = file
                 /\ last'.emitted = <<>>
            ELSE /\ last'.err = Nil
                 /\ tasks' = tasks
                 /\ last'.emitted = <<last'.event>>
                 /\ GetAll(file') = Append(Log, last'.event)]_vars

\* a TaskCompleted for an unknown task has been accepted on a workspace
\* that holds a completed task naming the unknown task as its parent
C39_UnknownCompletionProcessed ==
    /\ last.call = "Process"
    /\ last.event.type = "task_completed"
    /\ last.err = Nil
    /\ ~Has(tasks, last.event.TaskID)
    /\ ChildrenOf(tasks, last.event.TaskID) # {}
    /\ Len(Log) >= 2
    /\ Log[Len(Log)] = last.event

====
